---- MODULE Spec2Model ----
(***************************************************************************)
(* Diversify.ai browser extension: the in-page job-detail extractor, the   *)
(* popup -> content script -> background worker -> analysis service        *)
(* messaging chain, and the popup's processing of the analysis response.   *)
(*                                                                         *)
(* Text is a sequence of one-character strings, so that trim(), includes() *)
(* and toLowerCase() are computed and not assumed.  URLs and host names    *)
(* are sequences of fragments ("linkedin.com", "/jobs", ...), with         *)
(* includes() the same contiguous-subsequence test.                        *)
(***************************************************************************)
EXTENDS Integers, Sequences, FiniteSets, TLC

VARIABLES
    page,        \* the active tab: [host, path, doc]
    store,       \* chrome.storage.local: [userSkills, profileSetup]
    userSkills,  \* the popup's in-memory skill list (popup.js:2)
    cyc,         \* one record per analysis cycle (one per click on analyze-btn)
    writes,      \* chrome.storage.local.set calls not yet applied, oldest first
    lastSet,     \* the items of the latest chrome.storage.local.set call
    xHost,       \* extractor harness: window.location.hostname
    xDoc,        \* extractor harness: the live document
    xSelectors,  \* extractor harness: the locator list handed to tryQuerySelectors
    xText,       \* extractor harness: what tryQuerySelectors returned
    xDetails,    \* extractor harness: what extractJobDetails returned
    xPhase       \* extractor harness: "input" before the call, "output" after

vars ==
    <<page, store, userSkills, cyc, writes, lastSet,
      xHost, xDoc, xSelectors, xText, xDetails, xPhase>>
protoVars == <<page, store, userSkills, cyc, writes, lastSet>>
harnessVars == <<xHost, xDoc, xSelectors, xText, xDetails, xPhase>>

(***************************************************************************)
(* Bounds                                                                  *)
(***************************************************************************)
MaxElems == 2      \* elements of a document
MaxKids == 1       \* p/li/div descendants of the .jobs-description container
MaxLocators == 2   \* entries of a locator list handed to tryQuerySelectors
MaxCycles == 2     \* analysis cycles (clicks on analyze-btn) in one run
LiveCycles == 1    \* analysis cycles in a run checked for liveness
MaxNodes == 3      \* child nodes of the container in the fallback harness
MaxUserSkills == 2 \* entries of the popup's skill list in the match harness
MaxJobSkills == 3  \* entries of the skills array the service returns
MaxWrites == 2     \* chrome.storage.local.set calls pending at one time

(***************************************************************************)
(* Text                                                                    *)
(***************************************************************************)
RECURSIVE TrimLeft(_)
TrimLeft(s) ==
    IF s = <<>> THEN s
    ELSE IF Head(s) = " " THEN TrimLeft(Tail(s)) ELSE s

RECURSIVE TrimRight(_)
TrimRight(s) ==
    IF s = <<>> THEN s
    ELSE IF s[Len(s)] = " " THEN TrimRight(SubSeq(s, 1, Len(s) - 1)) ELSE s

\* String.prototype.trim
Trim(s) == TrimRight(TrimLeft(s))

\* String.prototype.includes: needle is a contiguous part of hay
Includes(hay, needle) ==
    \E i \in 0..(Len(hay) - Len(needle)) :
        SubSeq(hay, i + 1, i + Len(needle)) = needle

LowerChar(c) ==
    CASE c = "P" -> "p"
      [] c = "S" -> "s"
      [] c = "Q" -> "q"
      [] OTHER -> c

\* String.prototype.toLowerCase
ToLower(s) == [i \in 1..Len(s) |-> LowerChar(s[i])]

\* Array.prototype.join('\n')
RECURSIVE JoinLines(_)
JoinLines(ls) ==
    IF ls = <<>> THEN <<>>
    ELSE IF Len(ls) = 1 THEN Head(ls)
    ELSE Head(ls) \o <<"\n">> \o JoinLines(Tail(ls))

RECURSIVE SeqsUpTo(_, _)
SeqsUpTo(S, n) ==
    IF n = 0 THEN {<<>>}
    ELSE LET shorter == SeqsUpTo(S, n - 1)
         IN  shorter \cup {Append(s, x) : s \in {t \in shorter : Len(t) = n - 1}, x \in S}

(***************************************************************************)
(* The document                                                            *)
(*                                                                         *)
(* A document is the sequence of its elements in document order.  An       *)
(* element carries the class (or tag, or id) that decides which selectors  *)
(* match it, its own text, and, for the .jobs-description container, the   *)
(* trimmed-or-not texts of its p/li/div descendants.                       *)
(***************************************************************************)
descriptionSelectors ==
    << ".jobs-description-content__text", ".jobs-box__html-content",
       "[data-job-description]", "#job-details", ".description__text",
       "[class*='job-details']", "[class*='description']" >>

companySelectors ==
    << ".jobs-unified-top-card__company-name", ".jobs-company__name",
       "[data-tracking-control-name*='company']", "a[href*='/company/']",
       "[class*='company']" >>

titleSelectors ==
    << ".jobs-unified-top-card__job-title",
       ".job-details-jobs-unified-top-card__job-title",
       "[class*='job-title']", "h1" >>

\* CSS matching of the selectors above against the element kinds of the model
SelectorMatches(sel, cls) ==
    CASE cls = "jobs-description-content__text" ->
            sel \in {".jobs-description-content__text", "[class*='description']"}
      [] cls = "jobs-description" ->
            sel \in {".jobs-description", "[class*='description']"}
      [] cls = "jobs-unified-top-card__company-name" ->
            sel \in {".jobs-unified-top-card__company-name", "[class*='company']"}
      [] cls = "job-details-jobs-unified-top-card__job-title" ->
            sel \in {".job-details-jobs-unified-top-card__job-title",
                     "[class*='job-title']", "[class*='job-details']"}
      [] cls = "h1" -> sel = "h1"
      [] OTHER -> FALSE

ElemClasses ==
    {"jobs-description-content__text", "jobs-unified-top-card__company-name",
     "job-details-jobs-unified-top-card__job-title", "h1"}

ElemTexts == {<<>>, <<" ">>, <<" ", "a", " ">>}
KidTexts == {<<" ">>, <<"b", " ">>}

\* a node below an element: its tag, its own text and its child nodes
Node(tag, text, kids) == [tag |-> tag, text |-> text, kids |-> kids]
Paragraph(t) == Node("p", t, <<>>)

PlainElements == [cls : ElemClasses, text : ElemTexts, kids : {<<>>}]
Containers ==
    [cls : {"jobs-description"}, text : {<<>>},
     kids : SeqsUpTo({Paragraph(t) : t \in KidTexts}, MaxKids)]
Elements == PlainElements \cup Containers

Docs == SeqsUpTo(Elements, MaxElems)

\* whole pages: one element more, so that an empty description element, the
\* fallback container and a company element fit on one page
PageDocs == SeqsUpTo(Elements, MaxElems + 1)

\* the text of a sequence of sibling nodes, each with its descendants
RECURSIVE nodesText(_)
nodesText(nodes) ==
    IF nodes = <<>> THEN <<>>
    ELSE Head(nodes).text \o nodesText(Head(nodes).kids) \o nodesText(Tail(nodes))

\* Node.textContent: the element's own text followed by its descendants' text
textContent(el) == el.text \o nodesText(el.kids)

\* the nodes below an element in document order
RECURSIVE Descendants(_)
Descendants(nodes) ==
    IF nodes = <<>> THEN <<>>
    ELSE <<Head(nodes)>> \o Descendants(Head(nodes).kids) \o Descendants(Tail(nodes))

\* querySelectorAll restricted to the container's own children
\* (':scope > p, :scope > li, :scope > div')
querySelectorAllChildren(container) ==
    LET test(n) == n.tag \in {"p", "li", "div"}
    IN  SelectSeq(container.kids, test)

\* popup.js:298 container.querySelectorAll('p, li, div')
querySelectorAll(container) ==
    LET test(n) == n.tag \in {"p", "li", "div"}
    IN  SelectSeq(Descendants(container.kids), test)

\* Array.prototype.map(el => el.textContent) before the trim
TextContents(els) == [i \in 1..Len(els) |-> textContent(els[i])]

\* document.querySelector: the index of the first matching element, 0 for null
querySelector(doc, sel) ==
    LET hits == {i \in 1..Len(doc) : SelectorMatches(sel, doc[i].cls)}
    IN  IF hits = {} THEN 0 ELSE CHOOSE i \in hits : \A j \in hits : i <= j

NullText == [isNull |-> TRUE, text |-> <<>>]
SomeText(t) == [isNull |-> FALSE, text |-> t]

\* a JS value used as a condition: null and "" are falsy
Truthy(v) == ~v.isNull /\ v.text # <<>>

NullDetails == [isNull |-> TRUE, description |-> <<>>, company |-> <<>>, title |-> <<>>]
UnknownCompany == <<"Unknown Company">>
JobPosition == <<"Job Position">>

\* tryQuerySelectors without the test for empty text: the first locator whose
\* element exists decides
RECURSIVE tryQuerySelectorsFirstElement(_, _)
tryQuerySelectorsFirstElement(selectors, doc) ==
    IF selectors = <<>> THEN NullText
    ELSE LET element == querySelector(doc, Head(selectors))
         IN  IF element # 0
             THEN SomeText(Trim(textContent(doc[element])))
             ELSE tryQuerySelectorsFirstElement(Tail(selectors), doc)

\* popup.js:250 tryQuerySelectors
RECURSIVE tryQuerySelectors(_, _)
tryQuerySelectors(selectors, doc) ==
    IF selectors = <<>> THEN NullText
    ELSE LET element == querySelector(doc, Head(selectors))
         IN  IF element # 0 /\ Trim(textContent(doc[element])) # <<>>
             THEN SomeText(Trim(textContent(doc[element])))
             ELSE tryQuerySelectors(Tail(selectors), doc)


\* .map(text => text.trim()).filter(Boolean) over the selected elements' texts
RECURSIVE NonEmptyTrimmed(_)
NonEmptyTrimmed(kids) ==
    IF kids = <<>> THEN <<>>
    ELSE LET t == Trim(Head(kids))
         IN  IF t = <<>> THEN NonEmptyTrimmed(Tail(kids))
             ELSE <<t>> \o NonEmptyTrimmed(Tail(kids))

\* extractJobDetails with the final test on the description alone, the company
\* defaulted as in the fallback branch
extractJobDetailsCompanyOptional(hostname, doc) ==
    IF ~Includes(hostname, <<"linkedin.com">>) THEN NullDetails
    ELSE
    LET jobDescription == tryQuerySelectors(descriptionSelectors, doc)
        companyName == tryQuerySelectors(companySelectors, doc)
        jobTitle == tryQuerySelectors(titleSelectors, doc)
        container == querySelector(doc, ".jobs-description")
        paragraphs == IF container = 0 THEN <<>>
                      ELSE NonEmptyTrimmed(TextContents(querySelectorAll(doc[container])))
    IN  IF ~Truthy(jobDescription) /\ container # 0 /\ Len(paragraphs) > 0
        THEN [isNull |-> FALSE,
              description |-> JoinLines(paragraphs),
              company |-> IF Truthy(companyName) THEN companyName.text ELSE UnknownCompany,
              title |-> IF Truthy(jobTitle) THEN jobTitle.text ELSE JobPosition]
        ELSE IF Truthy(jobDescription)
        THEN [isNull |-> FALSE,
              description |-> jobDescription.text,
              company |-> IF Truthy(companyName) THEN companyName.text ELSE UnknownCompany,
              title |-> IF Truthy(jobTitle) THEN jobTitle.text ELSE JobPosition]
        ELSE NullDetails

\* popup.js:260 extractJobDetails
extractJobDetails(hostname, doc) ==
    IF ~Includes(hostname, <<"linkedin.com">>) THEN NullDetails
    ELSE
    LET jobDescription == tryQuerySelectors(descriptionSelectors, doc)
        companyName == tryQuerySelectors(companySelectors, doc)
        jobTitle == tryQuerySelectors(titleSelectors, doc)
        container == querySelector(doc, ".jobs-description")
        paragraphs == IF container = 0 THEN <<>>
                      ELSE NonEmptyTrimmed(TextContents(querySelectorAll(doc[container])))
    IN  IF ~Truthy(jobDescription) /\ container # 0 /\ Len(paragraphs) > 0
        THEN [isNull |-> FALSE,
              description |-> JoinLines(paragraphs),
              company |-> IF Truthy(companyName) THEN companyName.text ELSE UnknownCompany,
              title |-> IF Truthy(jobTitle) THEN jobTitle.text ELSE JobPosition]
        ELSE IF Truthy(jobDescription) /\ Truthy(companyName)
        THEN [isNull |-> FALSE,
              description |-> jobDescription.text,
              company |-> companyName.text,
              title |-> IF Truthy(jobTitle) THEN jobTitle.text ELSE JobPosition]
        ELSE NullDetails

(***************************************************************************)
(* Messages.  A message text is a sequence of fragments, so that a text    *)
(* built by concatenation keeps the description it carries.                *)
(***************************************************************************)
NoMsg == <<>>
HostMismatchMsg == <<"Please navigate to a LinkedIn job posting first.">>
NoPageResponseMsg == <<"No response from the page. Please refresh and try again.">>
InvalidStructureMsg == <<"Invalid response structure from background script.">>
InvalidSkillsMsg == <<"Invalid skills format from server">>
ProcessingPrefix == <<"Error processing job details: ">>
ExtractionErrorMsg ==
    <<"Could not find job details. Please make sure you're on a LinkedIn job posting page.">>
CommErrorPrefix == <<"Extension communication error: ">>
NoBgResponseMsg == <<"Extension error: No response from background service.">>
\* messages of errors raised by the runtime
NoReceiverError == <<"Could not establish connection. Receiving end does not exist.">>
PortClosedError == <<"The message port closed before a response was received.">>
FailedToFetch == <<"Failed to fetch">>
JsonSyntaxError == <<"Unexpected token < in JSON at position 0">>
NotAFunctionError == <<"s.toLowerCase is not a function">>
InvalidCountError == <<"Invalid count value">>

(***************************************************************************)
(* The analysis service's replies                                          *)
(***************************************************************************)
AbsentField == [present |-> FALSE, value |-> 0]
Num(n) == [present |-> TRUE, value |-> n]
NoArray == [tag |-> "absent", items |-> <<>>]
TextItem(t) == [isText |-> TRUE, text |-> t]
NumberItem == [isText |-> FALSE, text |-> <<>>]
ArrayOf(items) == [tag |-> "array", items |-> items]

NoData ==
    [kind |-> "undefined", skills |-> NoArray, matchPercentage |-> AbsentField,
     inclusionScore |-> AbsentField, supportPrograms |-> NoArray]
\* the JSON text null
JsonNull == [NoData EXCEPT !.kind = "null"]
\* an object without a skills field, such as FastAPI's {"detail": ...}
ErrorDetail == [NoData EXCEPT !.kind = "object"]
\* {"skills": "python"}
SkillsString == [ErrorDetail EXCEPT !.skills = [tag |-> "string", items |-> <<>>]]
\* {"skills": ["Px", 5], "matchPercentage": 50}
SkillsMixed ==
    [ErrorDetail EXCEPT !.skills = ArrayOf(<<TextItem(<<"P", "x">>), NumberItem>>),
                        !.matchPercentage = Num(50)]
\* {"skills": ["Px", "SQ", "x"], "matchPercentage": 50, "inclusionScore": 3,
\*  "supportPrograms": ["ERG"]}
ValidResult ==
    [kind |-> "object",
     skills |-> ArrayOf(<<TextItem(<<"P", "x">>), TextItem(<<"S", "Q">>), TextItem(<<"x">>)>>),
     matchPercentage |-> Num(50), inclusionScore |-> Num(3),
     supportPrograms |-> ArrayOf(<<TextItem(<<"E", "R", "G">>)>>)]
\* {"skills": ["x"]}
ValidNoPercent == [ErrorDetail EXCEPT !.skills = ArrayOf(<<TextItem(<<"x">>)>>)]
\* {"skills": ["x"], "matchPercentage": 50, "inclusionScore": 7}
ValidBadScore ==
    [ValidNoPercent EXCEPT !.matchPercentage = Num(50), !.inclusionScore = Num(7)]

Malformed == [json |-> FALSE, value |-> NoData]
Json(v) == [json |-> TRUE, value |-> v]

\* bodies of a 200 reply
Bodies ==
    {Malformed} \cup
    {Json(v) : v \in {JsonNull, SkillsString, SkillsMixed, ValidResult,
                      ValidNoPercent, ValidBadScore}}

NoOutcome == [kind |-> "none", status |-> 0, body |-> Malformed]
NetworkError == [kind |-> "networkError", status |-> 0, body |-> Malformed]
Http(status, body) == [kind |-> "http", status |-> status, body |-> body]

\* what fetch('http://localhost:5000/analyze') can settle with
ServiceOutcomes ==
    {NetworkError} \cup {Http(200, b) : b \in Bodies}
    \cup {Http(500, b) : b \in {Json(ErrorDetail), Json(ValidResult)}}

(***************************************************************************)
(* Responses passed to sendResponse.  fields is the set of properties the  *)
(* object literal has; a property outside fields reads as undefined.       *)
(***************************************************************************)
Undefined ==
    [undefined |-> TRUE, fields |-> {}, success |-> FALSE, data |-> NoData, error |-> NoMsg]
ErrorOnly(msg) ==
    [undefined |-> FALSE, fields |-> {"error"}, success |-> FALSE, data |-> NoData,
     error |-> msg]
Success(data) ==
    [undefined |-> FALSE, fields |-> {"success", "data"}, success |-> TRUE, data |-> data,
     error |-> NoMsg]
Failure(msg) ==
    [undefined |-> FALSE, fields |-> {"success", "error"}, success |-> FALSE,
     data |-> NoData, error |-> msg]

\* response.error used as a condition
HasError(r) == "error" \in r.fields /\ r.error # NoMsg
\* response.data used as a condition
HasData(r) == "data" \in r.fields /\ r.data.kind \notin {"undefined", "null"}

(***************************************************************************)
(* Background worker (part_000)                                            *)
(***************************************************************************)
NoRequest ==
    [isSet |-> FALSE, description |-> <<>>, company |-> <<>>, title |-> <<>>,
     skills |-> <<>>]

\* requestData without the skills read from the store
requestDataWithoutProfile(jobDetails, result) ==
    [isSet |-> TRUE, description |-> jobDetails.description,
     company |-> jobDetails.company, title |-> jobDetails.title,
     skills |-> <<>>]

\* part_000:12 requestData = { ...request.data, skills: result.userSkills || [] }
requestData(jobDetails, result) ==
    [isSet |-> TRUE, description |-> jobDetails.description,
     company |-> jobDetails.company, title |-> jobDetails.title,
     skills |-> IF result.userSkills.isSet THEN result.userSkills.list ELSE <<>>]

\* the promise chain with a success handler that throws after it has answered,
\* so that the catch handler answers too
bgPromiseChainBothBranches(outcome) ==
    IF outcome.kind = "networkError" THEN <<Failure(FailedToFetch)>>
    ELSE IF ~outcome.body.json THEN <<Failure(JsonSyntaxError)>>
    ELSE <<Success(outcome.body.value), Failure(NotAFunctionError)>>

\* part_000:29 the promise chain on fetch: the sendResponse calls it makes, in
\* order.  fetch rejects only on a network error; response.json() rejects on a
\* body that is not JSON; the status is never looked at.
bgPromiseChain(outcome) ==
    IF outcome.kind = "networkError" THEN <<Failure(FailedToFetch)>>
    ELSE IF ~outcome.body.json THEN <<Failure(JsonSyntaxError)>>
    ELSE <<Success(outcome.body.value)>>

(***************************************************************************)
(* Content script (popup.js:324)                                           *)
(***************************************************************************)
\* popup.js:328 the sendResponse calls the listener makes before it returns
contentListener(jobDetails) ==
    IF jobDetails.isNull THEN <<ErrorOnly(ExtractionErrorMsg)>> ELSE <<>>

\* the callback with a lastError branch that logs and returns without answering
contentCallbackSilentOnError(lastError, response) ==
    IF lastError # NoMsg THEN <<>>
    ELSE IF response.undefined THEN <<ErrorOnly(NoBgResponseMsg)>>
    ELSE IF HasError(response) THEN <<ErrorOnly(response.error)>>
    ELSE <<response>>

\* popup.js:343 the callback of chrome.runtime.sendMessage: the sendResponse
\* calls it makes
contentCallback(lastError, response) ==
    IF lastError # NoMsg THEN <<ErrorOnly(CommErrorPrefix \o lastError)>>
    ELSE IF response.undefined THEN <<ErrorOnly(NoBgResponseMsg)>>
    ELSE IF HasError(response) THEN <<ErrorOnly(response.error)>>
    ELSE <<response>>

(***************************************************************************)
(* Popup (popup.js:151)                                                    *)
(***************************************************************************)
NoShown ==
    [error |-> NoMsg, rendered |-> FALSE, matchPercent |-> 0, matchingSkills |-> <<>>,
     missingSkills |-> <<>>, inclusion |-> FALSE, stars |-> FALSE, programs |-> FALSE]
showError(msg) == [NoShown EXCEPT !.error = msg]

ItemTexts(items) == [i \in 1..Len(items) |-> items[i].text]

\* the matching filter with the containment turned round: a user skill matches
\* when it contains a job skill
matchingSkillsOfReversed(skills, jobSkills) ==
    LET Matches(skill) ==
            \E j \in 1..Len(jobSkills) : Includes(ToLower(skill), jobSkills[j])
    IN  SelectSeq(skills, Matches)

\* popup.js:190 userSkills.filter(skill => jobSkills.some(j => j.includes(skill.toLowerCase())))
matchingSkillsOf(skills, jobSkills) ==
    LET Matches(skill) ==
            \E j \in 1..Len(jobSkills) : Includes(jobSkills[j], ToLower(skill))
    IN  SelectSeq(skills, Matches)

\* the missing filter by equality instead of containment: a job skill is
\* missing unless it equals a user skill
missingSkillsOfExact(skills, jobSkills) ==
    LET Missing(skill) ==
            ~\E u \in 1..Len(skills) : ToLower(skill) = ToLower(skills[u])
    IN  SelectSeq(jobSkills, Missing)

\* popup.js:193 jobSkills.filter(skill => !userSkills.some(u => skill.toLowerCase().includes(u.toLowerCase())))
missingSkillsOf(skills, jobSkills) ==
    LET Missing(skill) ==
            ~\E u \in 1..Len(skills) : Includes(ToLower(skill), ToLower(skills[u]))
    IN  SelectSeq(jobSkills, Missing)

\* the try block with the percentage worked out from the local lists: the
\* share of job skills that are not missing
processAnalysisLocalPercent(analysisData, skills) ==
    IF analysisData.skills.tag # "array"
    THEN showError(ProcessingPrefix \o InvalidSkillsMsg)
    ELSE IF \E i \in 1..Len(analysisData.skills.items) : ~analysisData.skills.items[i].isText
    THEN showError(ProcessingPrefix \o NotAFunctionError)
    ELSE
    LET lowered == ItemTexts(analysisData.skills.items)
        jobSkills == [i \in 1..Len(lowered) |-> ToLower(lowered[i])]
        missing == missingSkillsOf(skills, jobSkills)
        matchPercent ==
            IF jobSkills = <<>> THEN 0
            ELSE ((Len(jobSkills) - Len(missing)) * 100) \div Len(jobSkills)
        report == [NoShown EXCEPT !.rendered = TRUE,
                                  !.matchPercent = matchPercent,
                                  !.matchingSkills = matchingSkillsOf(skills, jobSkills),
                                  !.missingSkills = missing]
        score == analysisData.inclusionScore
        programs == analysisData.supportPrograms.tag = "array"
    IN  IF ~score.present THEN [report EXCEPT !.programs = programs]
        ELSE IF score.value \in 0..5
        THEN [report EXCEPT !.inclusion = TRUE, !.stars = TRUE, !.programs = programs]
        ELSE [report EXCEPT !.inclusion = TRUE,
                            !.error = ProcessingPrefix \o InvalidCountError]

\* popup.js:180 the try block over response.data
processAnalysis(analysisData, skills) ==
    IF analysisData.skills.tag # "array"
    THEN showError(ProcessingPrefix \o InvalidSkillsMsg)
    ELSE IF \E i \in 1..Len(analysisData.skills.items) : ~analysisData.skills.items[i].isText
    THEN showError(ProcessingPrefix \o NotAFunctionError)
    ELSE
    LET matchPercent ==
            IF analysisData.matchPercentage.present
            THEN analysisData.matchPercentage.value ELSE 0
        lowered == ItemTexts(analysisData.skills.items)
        jobSkills == [i \in 1..Len(lowered) |-> ToLower(lowered[i])]
        report == [NoShown EXCEPT !.rendered = TRUE,
                                  !.matchPercent = matchPercent,
                                  !.matchingSkills = matchingSkillsOf(skills, jobSkills),
                                  !.missingSkills = missingSkillsOf(skills, jobSkills)]
        score == analysisData.inclusionScore
        programs == analysisData.supportPrograms.tag = "array"
    IN  IF ~score.present THEN [report EXCEPT !.programs = programs]
        ELSE IF score.value \in 0..5
        THEN [report EXCEPT !.inclusion = TRUE, !.stars = TRUE, !.programs = programs]
        ELSE [report EXCEPT !.inclusion = TRUE,
                            !.error = ProcessingPrefix \o InvalidCountError]

\* popup.js:159 the callback of chrome.tabs.sendMessage
popupCallback(lastError, response, skills) ==
    IF lastError # NoMsg THEN showError(<<"Error: ">> \o lastError)
    ELSE IF response.undefined THEN showError(NoPageResponseMsg)
    ELSE IF HasError(response) THEN showError(response.error)
    ELSE IF ~HasData(response) THEN showError(InvalidStructureMsg)
    ELSE processAnalysis(response.data, skills)

(***************************************************************************)
(* Profile (popup.js:5, 57, 103)                                           *)
(***************************************************************************)
\* String.prototype.split(','): the pieces between the commas
RECURSIVE Split(_)
Split(text) ==
    LET commas == {i \in 1..Len(text) : text[i] = ","}
    IN  IF commas = {} THEN <<text>>
        ELSE LET k == CHOOSE i \in commas : \A j \in commas : i <= j
             IN  <<SubSeq(text, 1, k - 1)>> \o Split(SubSeq(text, k + 1, Len(text)))

\* popup.js:69 newSkills.forEach(skill => { if (!userSkills.includes(skill)) push })
RECURSIVE PushNew(_, _)
PushNew(list, newSkills) ==
    IF newSkills = <<>> THEN list
    ELSE PushNew(IF \E i \in 1..Len(list) : list[i] = Head(newSkills)
                 THEN list ELSE Append(list, Head(newSkills)),
                 Tail(newSkills))

\* addSkills without toLowerCase()
addSkillsKeepCase(list, text) ==
    LET skillsText == Trim(text)
    IN  IF skillsText = <<>> THEN [saved |-> FALSE, list |-> list]
        ELSE [saved |-> TRUE, list |-> PushNew(list, NonEmptyTrimmed(Split(skillsText)))]

\* popup.js:57 addSkills on the input's text: the list it leaves in userSkills
\* and whether it went on to saveUserSkills
addSkills(list, text) ==
    LET skillsText == ToLower(Trim(text))
    IN  IF skillsText = <<>> THEN [saved |-> FALSE, list |-> list]
        ELSE [saved |-> TRUE, list |-> PushNew(list, NonEmptyTrimmed(Split(skillsText)))]

\* popup.js:105 userSkills.filter(s => s !== skillToRemove)
removeSkill(list, skillToRemove) ==
    LET test(sk) == sk # skillToRemove
    IN  SelectSeq(list, test)

(***************************************************************************)
(* Pages and stored profiles a run starts from                             *)
(***************************************************************************)
LinkedIn == <<"www.", "linkedin.com">>
JobPath == <<"/jobs", "/view/1">>

DescriptionElement(t) == [cls |-> "jobs-description-content__text", text |-> t, kids |-> <<>>]
CompanyElement(t) == [cls |-> "jobs-unified-top-card__company-name", text |-> t, kids |-> <<>>]

FullDoc == <<DescriptionElement(<<" ", "a", " ">>), CompanyElement(<<"a">>)>>
EmptyDoc == <<>>

Pages ==
    { [host |-> LinkedIn, path |-> JobPath, doc |-> FullDoc],
      [host |-> LinkedIn, path |-> JobPath, doc |-> EmptyDoc],
      [host |-> LinkedIn, path |-> <<"/feed">>, doc |-> EmptyDoc],
      [host |-> <<"www.google.com">>,
       path |-> <<"/search?q=", "linkedin.com", "/jobs">>, doc |-> FullDoc],
      [host |-> <<"www.indeed.com">>, path |-> <<"/viewjob">>, doc |-> FullDoc] }

\* tabs[0].url
url(p) == <<"https://">> \o p.host \o p.path

NothingStored == [userSkills |-> [isSet |-> FALSE, list |-> <<>>], profileSetup |-> FALSE]
Stored(list) == [userSkills |-> [isSet |-> TRUE, list |-> list], profileSetup |-> TRUE]
Stores == {NothingStored, Stored(<<<<"p">>, <<"s", "q">>>>)}

\* popup.js:5 the items saveUserSkills hands to chrome.storage.local.set
saveUserSkills(skills) == Stored(skills)

(***************************************************************************)
(* Analysis cycles                                                         *)
(***************************************************************************)
Cycles == 1..MaxCycles

NoReply == [lastError |-> NoMsg, response |-> Undefined]

IdleCycle ==
    [pc |-> "idle",            \* where the cycle is
     jobDetails |-> NullDetails,
     request |-> NoRequest,    \* body of the POST /analyze
     outcome |-> NoOutcome,    \* what the fetch settled with
     bgSends |-> <<>>,         \* sendResponse calls of the background listener
     reply |-> NoReply,        \* what the content script's callback is invoked with
     sends |-> <<>>,           \* sendResponse calls of the content script
     deliveries |-> 0,         \* invocations of the popup's response callback
     shown |-> NoShown,        \* what the popup displayed for the cycle
     log |-> <<>>]             \* the cycle's steps, in order

Logged(c, steps) == cyc[c].log \o steps

Init ==
    /\ page \in Pages
    /\ store \in Stores
    \* popup.js:20 the popup loads the stored skills when it opens
    /\ userSkills = IF store.userSkills.isSet THEN store.userSkills.list ELSE <<>>
    /\ cyc = [c \in Cycles |-> IdleCycle]
    /\ writes = <<>>
    /\ lastSet = NothingStored
    /\ xHost = <<>>
    /\ xDoc = <<>>
    /\ xSelectors = <<>>
    /\ xText = NullText
    /\ xDetails = NullDetails
    /\ xPhase = "off"

\* popup.js:151 click on analyze-btn, with the callback of chrome.tabs.query
Click(c) ==
    /\ cyc[c].pc = "idle"
    /\ IF c = 1 THEN TRUE ELSE cyc[c - 1].pc # "idle"
    /\ IF ~Includes(url(page), <<"linkedin.com", "/jobs">>)
       THEN cyc' = [cyc EXCEPT ![c].pc = "done",
                               ![c].shown = showError(HostMismatchMsg),
                               ![c].log = Logged(c, <<"hostMismatch">>)]
       ELSE cyc' = [cyc EXCEPT ![c].pc = "triggered",
                               ![c].log = Logged(c, <<"trigger">>)]
    /\ UNCHANGED <<page, store, userSkills, writes, lastSet, harnessVars>>

\* the tab has no content script listening: the popup's callback runs with
\* chrome.runtime.lastError set (popup.js:160)
TriggerUndelivered(c) ==
    /\ cyc[c].pc = "triggered"
    /\ cyc' = [cyc EXCEPT ![c].pc = "done",
                          ![c].deliveries = @ + 1,
                          ![c].shown = popupCallback(NoReceiverError, Undefined, userSkills),
                          ![c].log = Logged(c, <<"deliver">>)]
    /\ UNCHANGED <<page, store, userSkills, writes, lastSet, harnessVars>>

\* the listener without the early return after the extraction error: the
\* error is answered and the (absent) job details are handed off all the same
ContentReceiveNoReturn(c) ==
    /\ cyc[c].pc = "triggered"
    /\ LET jobDetails == extractJobDetails(page.host, page.doc)
       IN  cyc' = [cyc EXCEPT ![c].pc = "handoff",
                              ![c].jobDetails = jobDetails,
                              ![c].sends = @ \o contentListener(jobDetails),
                              ![c].log = Logged(c, <<"extract", "handoff">>)]
    /\ UNCHANGED <<page, store, userSkills, writes, lastSet, harnessVars>>

\* popup.js:324 the content script's listener receives {action: "analyze"}
ContentReceive(c) ==
    /\ cyc[c].pc = "triggered"
    /\ LET jobDetails == extractJobDetails(page.host, page.doc)
           sent == contentListener(jobDetails)
       IN  IF jobDetails.isNull
           THEN cyc' = [cyc EXCEPT ![c].pc = "relayed",
                                   ![c].sends = @ \o sent,
                                   ![c].log = Logged(c, <<"extract", "relay">>)]
           ELSE cyc' = [cyc EXCEPT ![c].pc = "handoff",
                                   ![c].jobDetails = jobDetails,
                                   ![c].sends = @ \o sent,
                                   ![c].log = Logged(c, <<"extract", "handoff">>)]
    /\ UNCHANGED <<page, store, userSkills, writes, lastSet, harnessVars>>

\* the background listener with the fetch issued beside the storage read
\* instead of inside its callback
BgReceiveFetchesAtOnce(c) ==
    /\ cyc[c].pc = "handoff"
    /\ cyc' = [cyc EXCEPT ![c].pc = "fetching",
                          ![c].request = requestData(cyc[c].jobDetails, NothingStored),
                          ![c].log = Logged(c, <<"readIssued", "fetch">>)]
    /\ UNCHANGED <<page, store, userSkills, writes, lastSet, harnessVars>>

\* part_000:7 the background listener receives {type: 'analyzeJob'}, asks the
\* store for userSkills and returns true
BgReceive(c) ==
    /\ cyc[c].pc = "handoff"
    /\ cyc' = [cyc EXCEPT ![c].pc = "reading",
                          ![c].log = Logged(c, <<"readIssued">>)]
    /\ UNCHANGED <<page, store, userSkills, writes, lastSet, harnessVars>>

\* part_000:10 the callback of chrome.storage.local.get: builds requestData and
\* issues the fetch
BgStorageRead(c) ==
    /\ cyc[c].pc = "reading"
    /\ cyc' = [cyc EXCEPT ![c].pc = "fetching",
                          ![c].request = requestData(cyc[c].jobDetails, store),
                          ![c].log = Logged(c, <<"readReturned", "fetch">>)]
    /\ UNCHANGED <<page, store, userSkills, writes, lastSet, harnessVars>>

\* part_000:11 the read fails: the callback runs with result undefined and
\* result.userSkills throws, so the listener never calls sendResponse
BgStorageReadFails(c) ==
    /\ cyc[c].pc = "reading"
    /\ cyc' = [cyc EXCEPT ![c].pc = "bgThrew",
                          ![c].log = Logged(c, <<"readFailed">>)]
    /\ UNCHANGED <<page, store, userSkills, writes, lastSet, harnessVars>>

\* the runtime closes the message port without a response: nothing listens in
\* the background (lastError set), or the listener will never answer (lastError
\* set, or left unset by an older runtime).  The content script's callback
\* then runs with response undefined.
PortClosed(c) ==
    /\ cyc[c].pc \in {"handoff", "bgThrew"}
    /\ \E lastError \in IF cyc[c].pc = "handoff" THEN {NoReceiverError}
                                                   ELSE {PortClosedError, NoMsg} :
         cyc' = [cyc EXCEPT ![c].pc = "replied",
                            ![c].reply = [lastError |-> lastError, response |-> Undefined],
                            ![c].log = Logged(c, <<"portClosed">>)]
    /\ UNCHANGED <<page, store, userSkills, writes, lastSet, harnessVars>>

\* the promise chain with a catch handler that issues the request once more
\* after a network error
FetchSettlesRetries(c) ==
    /\ cyc[c].pc = "fetching"
    /\ \E outcome \in ServiceOutcomes :
         LET sent == bgPromiseChain(outcome)
             fetches == Cardinality({i \in DOMAIN cyc[c].log : cyc[c].log[i] = "fetch"})
         IN  IF outcome.kind = "networkError" /\ fetches < 2
             THEN cyc' = [cyc EXCEPT ![c].log = Logged(c, <<"settled", "fetch">>)]
             ELSE cyc' = [cyc EXCEPT ![c].pc = "replied",
                                     ![c].outcome = outcome,
                                     ![c].bgSends = @ \o sent,
                                     ![c].reply = [lastError |-> NoMsg, response |-> Head(sent)],
                                     ![c].log = Logged(c, <<"settled">>)]
    /\ UNCHANGED <<page, store, userSkills, writes, lastSet, harnessVars>>

\* part_000:22 the fetch settles and the promise chain runs; the runtime hands
\* the first response sent to the content script's callback
FetchSettles(c) ==
    /\ cyc[c].pc = "fetching"
    /\ \E outcome \in ServiceOutcomes :
         LET sent == bgPromiseChain(outcome)
         IN  cyc' = [cyc EXCEPT ![c].pc = "replied",
                                ![c].outcome = outcome,
                                ![c].bgSends = @ \o sent,
                                ![c].reply = [lastError |-> NoMsg, response |-> Head(sent)],
                                ![c].log = Logged(c, <<"settled">>)]
    /\ UNCHANGED <<page, store, userSkills, writes, lastSet, harnessVars>>

\* the content script keeping the background's answer in one variable shared
\* by all pending requests: the callback forwards whichever answer is there
ContentCallbackSharedReply(c) ==
    /\ cyc[c].pc = "replied"
    /\ \E d \in Cycles :
         /\ cyc[d].pc \in {"replied", "relayed", "done"}
         /\ cyc' = [cyc EXCEPT ![c].pc = "relayed",
                               ![c].sends = @ \o contentCallback(cyc[d].reply.lastError,
                                                                 cyc[d].reply.response),
                               ![c].log = Logged(c, <<"relay">>)]
    /\ UNCHANGED <<page, store, userSkills, writes, lastSet, harnessVars>>

\* popup.js:343 the content script's callback forwards the outcome to the popup
ContentCallback(c) ==
    /\ cyc[c].pc = "replied"
    /\ cyc' = [cyc EXCEPT ![c].pc = "relayed",
                          ![c].sends = @ \o contentCallback(cyc[c].reply.lastError,
                                                            cyc[c].reply.response),
                          ![c].log = Logged(c, <<"relay">>)]
    /\ UNCHANGED <<page, store, userSkills, writes, lastSet, harnessVars>>

\* the callback with the match filter assigned back to userSkills
PopupCallbackKeepsMatching(c) ==
    /\ cyc[c].pc = "relayed"
    /\ cyc[c].sends # <<>>
    /\ LET shown == popupCallback(NoMsg, Head(cyc[c].sends), userSkills)
       IN  /\ cyc' = [cyc EXCEPT ![c].pc = "done",
                                 ![c].deliveries = @ + 1,
                                 ![c].shown = shown,
                                 ![c].log = Logged(c, <<"deliver">>)]
           /\ userSkills' = IF shown.rendered THEN shown.matchingSkills ELSE userSkills
    /\ UNCHANGED <<page, store, writes, lastSet, harnessVars>>

\* popup.js:159 the popup's callback runs with the first response the content
\* script sent
PopupCallback(c) ==
    /\ cyc[c].pc = "relayed"
    /\ cyc[c].sends # <<>>
    /\ cyc' = [cyc EXCEPT ![c].pc = "done",
                          ![c].deliveries = @ + 1,
                          ![c].shown = popupCallback(NoMsg, Head(cyc[c].sends), userSkills),
                          ![c].log = Logged(c, <<"deliver">>)]
    /\ UNCHANGED <<page, store, userSkills, writes, lastSet, harnessVars>>

Step(c) ==
    \/ TriggerUndelivered(c)
    \/ ContentReceive(c)
    \/ BgReceive(c)
    \/ BgStorageRead(c)
    \/ BgStorageReadFails(c)
    \/ PortClosed(c)
    \/ FetchSettles(c)
    \/ ContentCallback(c)
    \/ PopupCallback(c)

Next == \E c \in Cycles : Click(c) \/ Step(c)

Spec == Init /\ [][Next]_vars

\* runs of the first LiveCycles cycles in which every message, callback and
\* promise that is pending is eventually run
LiveNext == \E c \in 1..LiveCycles : Click(c) \/ Step(c)

FairSpec == Init /\ [][LiveNext]_vars /\ \A c \in 1..LiveCycles : WF_vars(Step(c))

(***************************************************************************)
(* Profile operations of the popup                                         *)
(***************************************************************************)
\* popup.js:57 click on add-skills-btn (or Enter) with text in skills-input
AddSkills(text) ==
    LET r == addSkills(userSkills, text)
    IN  /\ Len(r.list) <= MaxUserSkills
        /\ r.saved => Len(writes) < MaxWrites
        /\ userSkills' = r.list
        /\ IF r.saved
           THEN /\ writes' = Append(writes, saveUserSkills(r.list))
                /\ lastSet' = saveUserSkills(r.list)
           ELSE UNCHANGED <<writes, lastSet>>
        /\ UNCHANGED <<page, store, cyc, harnessVars>>

\* popup.js:103 click on the remove button of the i-th skill tag
RemoveSkill(i) ==
    /\ i \in 1..Len(userSkills)
    /\ userSkills' = removeSkill(userSkills, userSkills[i])
    /\ UNCHANGED <<page, store, cyc, writes, lastSet, harnessVars>>

\* popup.js:113 click on save-profile-btn
SaveProfile ==
    /\ Len(writes) < MaxWrites
    /\ writes' = Append(writes, saveUserSkills(userSkills))
    /\ lastSet' = saveUserSkills(userSkills)
    /\ UNCHANGED <<page, store, userSkills, cyc, harnessVars>>

\* chrome.storage.local applies the oldest pending set call and runs its
\* callback, which resolves the promise of saveUserSkills
StorageSet ==
    /\ writes # <<>>
    /\ store' = Head(writes)
    /\ writes' = Tail(writes)
    /\ UNCHANGED <<page, userSkills, cyc, lastSet, harnessVars>>

\* texts typed into skills-input
InputTexts ==
    { <<>>,
      <<" ", " ">>,
      <<",", " ", ",">>,
      <<"P">>,
      <<" ", "p", " ">>,
      <<"P", ",", " ", "S", "Q", ",", " ", "p">>,
      <<"s", "q", ",", ",", "x", ",">>,
      <<"x", " ", ",", "S", "Q">> }

ProfileInit ==
    /\ page = [host |-> LinkedIn, path |-> JobPath, doc |-> FullDoc]
    /\ store \in Stores
    /\ userSkills = IF store.userSkills.isSet THEN store.userSkills.list ELSE <<>>
    /\ cyc = [c \in Cycles |-> IdleCycle]
    /\ writes = <<>>
    /\ lastSet = NothingStored
    /\ xHost = <<>>
    /\ xDoc = <<>>
    /\ xSelectors = <<>>
    /\ xText = NullText
    /\ xDetails = NullDetails
    /\ xPhase = "off"

ProfileNext ==
    \/ \E text \in InputTexts : AddSkills(text)
    \/ \E i \in 1..MaxUserSkills : RemoveSkill(i)
    \/ SaveProfile
    \/ StorageSet

SpecProfile == ProfileInit /\ [][ProfileNext]_vars

(***************************************************************************)
(* An analysis cycle while the popup adds skills: the background's read of  *)
(* the store races with the popup's writes.                                *)
(***************************************************************************)
RaceInputs == { <<"x">>, <<"P">> }

RaceNext ==
    \/ Click(1)
    \/ Step(1)
    \/ \E text \in RaceInputs : AddSkills(text)
    \/ StorageSet

SpecRace == ProfileInit /\ [][RaceNext]_vars

(***************************************************************************)
(* The messaging protocol: C1 - C8                                         *)
(***************************************************************************)
InLog(c, step) == \E i \in DOMAIN cyc[c].log : cyc[c].log[i] = step
Times(c, step) == Cardinality({i \in DOMAIN cyc[c].log : cyc[c].log[i] = step})
\* the place of a step that is in the log
Pos(c, step) == CHOOSE i \in DOMAIN cyc[c].log : cyc[c].log[i] = step
Before(c, a, b) == InLog(c, a) /\ InLog(c, b) /\ Pos(c, a) < Pos(c, b)

\* C1: no duplicate delivery: in every cycle the background listener sends at
\* most one response (never both from the success and the failure branch), the
\* content script sends at most one, and the popup's response callback runs
\* at most once.
C1_AtMostOneResponse ==
    \A c \in Cycles :
        /\ Len(cyc[c].bgSends) <= 1
        /\ Len(cyc[c].sends) <= 1
        /\ cyc[c].deliveries <= 1

\* a cycle that went through the service and was answered once at each hop
C1_Witness ==
    \E c \in Cycles :
        /\ cyc[c].pc = "done"
        /\ cyc[c].outcome = Http(200, Json(ValidResult))
        /\ Len(cyc[c].bgSends) = 1
        /\ Len(cyc[c].sends) = 1
        /\ cyc[c].deliveries = 1

\* C2: no silent drop: a trigger that reached the content script leads to a
\* response sent to the popup, the popup's callback run once and the cycle
\* over, given that every pending message, storage read and fetch completes.
C2_NoSilentDrop ==
    \A c \in 1..LiveCycles :
        InLog(c, "extract") ~>
            (cyc[c].pc = "done" /\ cyc[c].sends # <<>> /\ cyc[c].deliveries = 1)

\* a cycle that reached the content script and whose fetch was rejected is
\* over, with the failure's description delivered to the popup
C2_Witness ==
    \E c \in 1..LiveCycles :
        /\ cyc[c].pc = "done"
        /\ InLog(c, "extract")
        /\ cyc[c].outcome = NetworkError
        /\ cyc[c].sends = <<ErrorOnly(FailedToFetch)>>
        /\ cyc[c].deliveries = 1
        /\ cyc[c].shown.error = FailedToFetch

\* a cycle whose storage read failed in the background is answered as well, by
\* the content script's lastError branch
C2_WitnessReadFailed ==
    \E c \in 1..LiveCycles :
        /\ cyc[c].pc = "done"
        /\ InLog(c, "readFailed")
        /\ cyc[c].deliveries = 1
        /\ cyc[c].shown.error = CommErrorPrefix \o PortClosedError

\* C3: the stages of a cycle happen once each and in the order extraction,
\* profile read, service call, relay: the read is issued only after an
\* extraction that found job details, the fetch only after the read has
\* returned, and the relay of a cycle that fetched only after the fetch
\* has settled.
C3_StagesInOrder ==
    \A c \in Cycles :
        /\ \A step \in {"trigger", "extract", "handoff", "readIssued", "readReturned",
                        "fetch", "settled", "relay", "deliver"} : Times(c, step) <= 1
        /\ InLog(c, "extract") => cyc[c].log[1] = "trigger" /\ Pos(c, "extract") = 2
        /\ InLog(c, "readIssued") =>
             Before(c, "extract", "readIssued") /\ ~cyc[c].jobDetails.isNull
        /\ InLog(c, "fetch") =>
             Before(c, "readIssued", "readReturned") /\ Before(c, "readReturned", "fetch")
        /\ InLog(c, "settled") => Before(c, "fetch", "settled")
        /\ InLog(c, "relay") =>
             /\ Before(c, "extract", "relay")
             /\ InLog(c, "fetch") => Before(c, "settled", "relay")
        /\ InLog(c, "deliver") /\ InLog(c, "extract") => Before(c, "relay", "deliver")

\* a cycle that went through every stage
C3_Witness ==
    \E c \in Cycles :
        cyc[c].log = <<"trigger", "extract", "handoff", "readIssued", "readReturned",
                       "fetch", "settled", "relay", "deliver">>

\* C4: when extraction returns absent the content script answers at once with
\* the could-not-find-job-details error, and the cycle has no handoff to the
\* background, no profile read and no service request.
C4_ExtractionFailureRelaysAtOnce ==
    \A c \in Cycles :
        InLog(c, "extract") /\ extractJobDetails(page.host, page.doc).isNull =>
            /\ cyc[c].sends = <<ErrorOnly(ExtractionErrorMsg)>>
            /\ cyc[c].log \in {<<"trigger", "extract", "relay">>,
                               <<"trigger", "extract", "relay", "deliver">>}
            /\ ~cyc[c].request.isSet
            /\ cyc[c].outcome = NoOutcome
            /\ cyc[c].pc = "done" => cyc[c].shown = showError(ExtractionErrorMsg)

\* a LinkedIn job page without any job element: the error reached the popup
C4_Witness ==
    \E c \in Cycles :
        /\ Includes(page.host, <<"linkedin.com">>)
        /\ cyc[c].pc = "done"
        /\ InLog(c, "extract")
        /\ cyc[c].shown.error = ExtractionErrorMsg

\* C5 (as claimed): on a page whose host is not a recognized job site, a
\* triggered analysis ends with the host-mismatch error before any extraction
\* attempt: the popup sends no trigger.
C5_HostMismatchBeforeExtraction ==
    \A c \in Cycles :
        ~Includes(page.host, <<"linkedin.com">>) /\ cyc[c].pc # "idle" =>
            /\ cyc[c].log = <<"hostMismatch">>
            /\ cyc[c].shown = showError(HostMismatchMsg)

\* the part of C5 that holds: on such a host no cycle hands job details to the
\* background, reads the profile or issues a service request.
C5_NoNetworkCallOffHost ==
    \A c \in Cycles :
        ~Includes(page.host, <<"linkedin.com">>) =>
            /\ ~InLog(c, "handoff") /\ ~InLog(c, "readIssued") /\ ~InLog(c, "fetch")
            /\ ~cyc[c].request.isSet

\* C6 (as claimed): a network error, a status outside 200-299 or a body that
\* is not JSON makes the background answer success false with the failure's
\* description, never success true.
C6_TransportFailureIsFailure ==
    \A c \in Cycles :
        /\ cyc[c].bgSends # <<>>
        /\ \/ cyc[c].outcome.kind = "networkError"
           \/ cyc[c].outcome.kind = "http" /\ cyc[c].outcome.status \notin 200..299
           \/ cyc[c].outcome.kind = "http" /\ ~cyc[c].outcome.body.json
        => /\ ~Head(cyc[c].bgSends).success
           /\ HasError(Head(cyc[c].bgSends))

\* the skills field of a service result is absent or not a sequence of text
InvalidSkills(data) ==
    /\ data.kind = "object"
    /\ \/ data.skills.tag # "array"
       \/ \E i \in 1..Len(data.skills.items) : ~data.skills.items[i].isText

\* C7 (as claimed): a service result whose skills field is absent or not a
\* sequence of text is rejected as an invalid-skills-format failure and
\* nothing of it is rendered.
C7_InvalidSkillsRejected ==
    \A c \in Cycles :
        /\ cyc[c].pc = "done"
        /\ cyc[c].sends # <<>>
        /\ "data" \in Head(cyc[c].sends).fields
        /\ InvalidSkills(Head(cyc[c].sends).data)
        => cyc[c].shown = showError(ProcessingPrefix \o InvalidSkillsMsg)

\* the part of C7 that holds: such a result is never rendered, and the error
\* shown starts with the processing prefix, which no transport failure has.
C7_InvalidSkillsNeverRendered ==
    \A c \in Cycles :
        /\ cyc[c].pc = "done"
        /\ cyc[c].sends # <<>>
        /\ "data" \in Head(cyc[c].sends).fields
        /\ InvalidSkills(Head(cyc[c].sends).data)
        => /\ ~cyc[c].shown.rendered
           /\ SubSeq(cyc[c].shown.error, 1, 1) = ProcessingPrefix
           /\ cyc[c].shown.error \notin {FailedToFetch, JsonSyntaxError}

\* C8 (as claimed): every response the content script sends to the popup has
\* a boolean success property, with data when it is true and an error text
\* when it is false.
C8_FinalResponseShape ==
    \A c \in Cycles :
        \A i \in DOMAIN cyc[c].sends :
            LET r == cyc[c].sends[i]
            IN  /\ "success" \in r.fields
                /\ r.success => "data" \in r.fields
                /\ ~r.success => HasError(r)

(***************************************************************************)
(* Extractor harness: the two pure functions applied to bounded inputs     *)
(***************************************************************************)
Hosts == { <<"www.", "linkedin.com">>, <<"www.google.com">>, <<"www.indeed.com">> }

\* selectors a locator list of the harness is made of: two that can match the
\* same element, one that matches another element, one that matches nothing
LocatorPool ==
    {".jobs-description-content__text", "[class*='description']", "h1",
     "[data-job-description]"}

LocatorLists == SeqsUpTo(LocatorPool, MaxLocators)

ProtoIdle ==
    /\ page = [host |-> <<>>, path |-> <<>>, doc |-> <<>>]
    /\ store = [userSkills |-> <<>>, profileSetup |-> FALSE]
    /\ userSkills = <<>>
    /\ cyc = <<>>
    /\ writes = <<>>
    /\ lastSet = NothingStored

FieldInit ==
    /\ ProtoIdle
    /\ xHost = <<>>
    /\ xDoc \in Docs
    /\ xSelectors \in LocatorLists
    /\ xText = NullText
    /\ xDetails = NullDetails
    /\ xPhase = "input"

\* the content script calls tryQuerySelectors(selectors) on the live document
FieldApply ==
    /\ xPhase = "input"
    /\ xText' = tryQuerySelectors(xSelectors, xDoc)
    /\ xPhase' = "output"
    /\ UNCHANGED <<xHost, xDoc, xSelectors, xDetails, protoVars>>

FieldNext == FieldApply

SpecField == FieldInit /\ [][FieldNext]_vars

ExtractInit ==
    /\ ProtoIdle
    /\ xHost \in Hosts
    /\ xDoc \in PageDocs
    /\ xSelectors = <<>>
    /\ xText = NullText
    /\ xDetails = NullDetails
    /\ xPhase = "input"

\* the content script calls extractJobDetails() on the page it runs in
ExtractApply ==
    /\ xPhase = "input"
    /\ xDetails' = extractJobDetails(xHost, xDoc)
    /\ xPhase' = "output"
    /\ UNCHANGED <<xHost, xDoc, xSelectors, xText, protoVars>>

ExtractNext == ExtractApply

SpecExtract == ExtractInit /\ [][ExtractNext]_vars

\* what the .jobs-description container of a job page may hold: paragraphs and
\* spans with or without text, a div with text of its own, a div around a
\* paragraph and a list around an item
FallbackTexts == {<<>>, <<"b", " ">>, <<"c">>}

ContainerNodes ==
    {Node(tag, t, <<>>) : tag \in {"p", "span"}, t \in FallbackTexts} \cup
    { Node("div", <<"b">>, <<>>),
      Node("div", <<>>, <<Paragraph(<<"c">>)>>),
      Node("ul", <<>>, <<Node("li", <<"c">>, <<>>)>>) }

RichContainers ==
    [cls : {"jobs-description"}, text : {<<>>}, kids : SeqsUpTo(ContainerNodes, MaxNodes)]

\* pages with the container alone, after an empty description element, and
\* after a description element with text; with or without a company element
FallbackDocs ==
    {pre \o <<c>> \o post :
        pre \in {<<>>, <<DescriptionElement(<<" ">>)>>, <<DescriptionElement(<<" ", "a", " ">>)>>},
        c \in RichContainers,
        post \in {<<>>, <<CompanyElement(<<"a">>)>>}}

FallbackInit ==
    /\ ProtoIdle
    /\ xHost = LinkedIn
    /\ xDoc \in FallbackDocs
    /\ xSelectors = <<>>
    /\ xText = NullText
    /\ xDetails = NullDetails
    /\ xPhase = "input"

SpecFallback == FallbackInit /\ [][ExtractNext]_vars

(***************************************************************************)
(* The match report: the popup's callback applied to the service's answer  *)
(* for bounded skill lists.                                                *)
(***************************************************************************)
\* skills as addSkills stores them: lowercase, trimmed, non-empty
UserSkillTexts == { <<"p">>, <<"s", "q">>, <<"x", "p">> }

\* the popup's list: addSkills never stores an entry twice
UserLists ==
    {l \in SeqsUpTo(UserSkillTexts, MaxUserSkills) :
        \A i, j \in 1..Len(l) : l[i] = l[j] => i = j}

\* skills as the service names them, in any case
JobSkillTexts == { <<"P", "x">>, <<"S", "Q">>, <<"x">>, <<"p">> }

\* the JSON objects the service answers with: a skills array of texts, with
\* or without a percentage
MatchResults ==
    { [ErrorDetail EXCEPT !.skills = ArrayOf([i \in 1..Len(l) |-> TextItem(l[i])]),
                          !.matchPercentage = pct,
                          !.inclusionScore = Num(3)] :
        l \in SeqsUpTo(JobSkillTexts, MaxJobSkills),
        pct \in {AbsentField, Num(0), Num(50)} }

\* a cycle on page p whose fetch settled with outcome and whose answer the
\* content script has relayed: the state ContentCallback leaves behind
RelayedCycle(p, result, outcome) ==
    LET jobDetails == extractJobDetails(p.host, p.doc)
        sent == bgPromiseChain(outcome)
    IN  [IdleCycle EXCEPT
            !.pc = "relayed",
            !.jobDetails = jobDetails,
            !.request = requestData(jobDetails, result),
            !.outcome = outcome,
            !.bgSends = sent,
            !.reply = [lastError |-> NoMsg, response |-> Head(sent)],
            !.sends = contentListener(jobDetails) \o contentCallback(NoMsg, Head(sent)),
            !.log = <<"trigger", "extract", "handoff", "readIssued", "readReturned",
                      "fetch", "settled", "relay">>]

MatchInit ==
    /\ page = [host |-> LinkedIn, path |-> JobPath, doc |-> FullDoc]
    /\ userSkills \in UserLists
    /\ store \in {Stored(userSkills)} \cup (IF userSkills = <<>> THEN {NothingStored} ELSE {})
    /\ \E data \in MatchResults :
         cyc = [c \in Cycles |-> RelayedCycle(page, store, Http(200, Json(data)))]
    /\ writes = <<>>
    /\ lastSet = NothingStored
    /\ xHost = <<>>
    /\ xDoc = <<>>
    /\ xSelectors = <<>>
    /\ xText = NullText
    /\ xDetails = NullDetails
    /\ xPhase = "off"

MatchNext == \E c \in Cycles : PopupCallback(c)

SpecMatch == MatchInit /\ [][MatchNext]_vars

(***************************************************************************)
(* C9  tryQuerySelectors                                                   *)
(***************************************************************************)
\* locator i of the list resolves to an element whose trimmed text is non-empty
LocatorYields(selectors, doc, i) ==
    /\ querySelector(doc, selectors[i]) # 0
    /\ Trim(textContent(doc[querySelector(doc, selectors[i])])) # <<>>

\* C9: for any locator list and document, the field extractor returns the
\* trimmed text of the element of the first list entry whose element exists and
\* has non-empty trimmed text, and returns absent exactly when no entry has
\* one; entries whose element is missing, empty or whitespace-only are skipped.
C9_FirstNonEmptyLocator ==
    xPhase = "output" =>
        LET yielding == {i \in 1..Len(xSelectors) : LocatorYields(xSelectors, xDoc, i)}
        IN  /\ xText.isNull <=> yielding = {}
            /\ yielding # {} =>
                 LET first == CHOOSE i \in yielding : \A j \in yielding : i <= j
                 IN  xText.text =
                         Trim(textContent(xDoc[querySelector(xDoc, xSelectors[first])]))
            /\ ~xText.isNull => xText.text # <<>> /\ Trim(xText.text) = xText.text

\* entry 1 resolves to a whitespace-only element, entry 2 to a non-empty one of
\* another element, and entry 2's trimmed value is returned
C9_Witness ==
    /\ xPhase = "output"
    /\ Len(xSelectors) = 2
    /\ querySelector(xDoc, xSelectors[1]) # 0
    /\ textContent(xDoc[querySelector(xDoc, xSelectors[1])]) = <<" ">>
    /\ querySelector(xDoc, xSelectors[2]) # 0
    /\ querySelector(xDoc, xSelectors[2]) # querySelector(xDoc, xSelectors[1])
    /\ textContent(xDoc[querySelector(xDoc, xSelectors[2])]) = <<" ", "a", " ">>
    /\ xText = SomeText(<<"a">>)

(***************************************************************************)
(* C10  extractJobDetails                                                  *)
(***************************************************************************)
\* the lines read off a container whose nodes nest at most two deep: a
\* position <<i, 0>> is the i-th child, <<i, j>> its j-th child; document
\* order is the order of the pairs; a position is kept when its node is a p,
\* li or div with non-empty trimmed text
LinesAt(container, positions) ==
    LET K == container.kids
        at(q) == IF q[2] = 0 THEN K[q[1]] ELSE K[q[1]].kids[q[2]]
        before(q, r) == q[1] < r[1] \/ (q[1] = r[1] /\ q[2] < r[2])
        keep == {q \in positions :
                    /\ at(q).tag \in {"p", "li", "div"}
                    /\ Trim(textContent(at(q))) # <<>>}
        nth(n) == CHOOSE q \in keep : Cardinality({r \in keep : before(r, q)}) = n - 1
    IN  [n \in 1..Cardinality(keep) |-> Trim(textContent(at(nth(n))))]

ChildPositions(container) == {<<i, 0>> : i \in 1..Len(container.kids)}

DescendantPositions(container) ==
    ChildPositions(container) \cup
    UNION {{<<i, j>> : j \in 1..Len(container.kids[i].kids)} : i \in 1..Len(container.kids)}

\* the non-empty trimmed lines of the first .jobs-description container, or
\* none when the page has no such container
FallbackLines(doc) ==
    LET cs == {i \in 1..Len(doc) : doc[i].cls = "jobs-description"}
    IN  IF cs = {} THEN <<>>
        ELSE LET c == CHOOSE i \in cs : \A j \in cs : i <= j
             IN  LinesAt(doc[c], DescendantPositions(doc[c]))

\* the same, read off the container's own children only
ChildLines(doc) ==
    LET cs == {i \in 1..Len(doc) : doc[i].cls = "jobs-description"}
    IN  IF cs = {} THEN <<>>
        ELSE LET c == CHOOSE i \in cs : \A j \in cs : i <= j
             IN  LinesAt(doc[c], ChildPositions(doc[c]))

OrElse(v, default) == IF v.isNull THEN default ELSE v.text

\* C10: on a recognized host extractJobDetails follows the three-case policy:
\* (1) description locators fail and the fallback container has a non-empty
\* line: the joined lines, company or "Unknown Company", title or "Job
\* Position"; (2) description and company resolved: both, with title or "Job
\* Position"; (3) otherwise absent.  Any returned JobDetails has non-empty
\* description, company and title.
C10_ThreeCasePolicy ==
    xPhase = "output" /\ Includes(xHost, <<"linkedin.com">>) =>
        LET d == tryQuerySelectors(descriptionSelectors, xDoc)
            c == tryQuerySelectors(companySelectors, xDoc)
            t == tryQuerySelectors(titleSelectors, xDoc)
            lines == FallbackLines(xDoc)
        IN  /\ d.isNull /\ lines # <<>> =>
                 xDetails = [isNull |-> FALSE,
                             description |-> JoinLines(lines),
                             company |-> OrElse(c, UnknownCompany),
                             title |-> OrElse(t, JobPosition)]
            /\ ~d.isNull /\ ~c.isNull =>
                 xDetails = [isNull |-> FALSE, description |-> d.text,
                             company |-> c.text, title |-> OrElse(t, JobPosition)]
            /\ ~(d.isNull /\ lines # <<>>) /\ ~(~d.isNull /\ ~c.isNull) => xDetails.isNull
            /\ ~xDetails.isNull =>
                 /\ xDetails.description # <<>>
                 /\ xDetails.company # <<>>
                 /\ xDetails.title # <<>>

\* case (1): the description locators fail on a page whose first
\* description-classed element is empty, and the fallback supplies the text
C10_Witness ==
    /\ xPhase = "output" /\ Includes(xHost, <<"linkedin.com">>)
    /\ tryQuerySelectors(descriptionSelectors, xDoc).isNull
    /\ FallbackLines(xDoc) # <<>>
    /\ xDetails.description = <<"b">>
    /\ xDetails.company = UnknownCompany
    /\ xDetails.title = JobPosition

\* case (2) with all three fields resolved by locators
C10_WitnessLocators ==
    /\ xPhase = "output" /\ Includes(xHost, <<"linkedin.com">>)
    /\ ~xDetails.isNull
    /\ xDetails.company = <<"a">>
    /\ xDetails.title = <<"a">>

\* case (3): a description without a company is not enough
C10_WitnessAbsent ==
    /\ xPhase = "output" /\ Includes(xHost, <<"linkedin.com">>)
    /\ ~tryQuerySelectors(descriptionSelectors, xDoc).isNull
    /\ xDetails.isNull

(***************************************************************************)
(* C11  the structural fallback of extractJobDetails                       *)
(***************************************************************************)
\* C11 as stated: when the description locators all fail and details are
\* returned, the description is the newline-joined non-empty trimmed texts of
\* the container's child p/li/div nodes
C11_ChildNodesOnly ==
    xPhase = "output" /\ Includes(xHost, <<"linkedin.com">>) =>
        LET d == tryQuerySelectors(descriptionSelectors, xDoc)
        IN  d.isNull /\ ~xDetails.isNull =>
                xDetails.description = JoinLines(ChildLines(xDoc))

\* C11: the structural fallback is used only when the description locators
\* all fail; it then yields the non-empty trimmed texts of the container's
\* descendant p/li/div elements (each with the text of its own descendants),
\* in document order, joined by newlines; when a description locator
\* succeeds the description is the locator's text and the container's nodes
\* play no part.
C11_FallbackFromDescendants ==
    xPhase = "output" /\ Includes(xHost, <<"linkedin.com">>) =>
        LET d == tryQuerySelectors(descriptionSelectors, xDoc)
            lines == FallbackLines(xDoc)
        IN  /\ ~d.isNull /\ ~xDetails.isNull => xDetails.description = d.text
            /\ d.isNull /\ ~xDetails.isNull => xDetails.description = JoinLines(lines)
            /\ d.isNull /\ lines # <<>> => ~xDetails.isNull
            /\ d.isNull /\ lines = <<>> => xDetails.isNull

\* the container's children are three paragraphs, the first one empty: two
\* lines joined by one newline
C11_Witness ==
    /\ xPhase = "output"
    /\ tryQuerySelectors(descriptionSelectors, xDoc).isNull
    /\ \E i \in 1..Len(xDoc) :
          xDoc[i].kids = <<Paragraph(<<>>), Paragraph(<<"b", " ">>), Paragraph(<<"c">>)>>
    /\ xDetails.description = <<"b", "\n", "c">>

\* a paragraph inside a div is read twice, once as the div's text
C11_WitnessNested ==
    /\ xPhase = "output"
    /\ tryQuerySelectors(descriptionSelectors, xDoc).isNull
    /\ \E i \in 1..Len(xDoc) : xDoc[i].kids = <<Node("div", <<>>, <<Paragraph(<<"c">>)>>)>>
    /\ xDetails.description = <<"c", "\n", "c">>

\* a description locator succeeded although the container holds paragraphs
C11_WitnessPrimary ==
    /\ xPhase = "output"
    /\ FallbackLines(xDoc) # <<>>
    /\ ~tryQuerySelectors(descriptionSelectors, xDoc).isNull
    /\ ~xDetails.isNull
    /\ xDetails.description = <<"a">>

(***************************************************************************)
(* C12, C13, C20  the match report                                         *)
(***************************************************************************)
\* the entries of s at the indices in keep, in the order of s
Kept(s, keep) ==
    LET nth(n) == CHOOSE k \in keep : Cardinality({m \in keep : m < k}) = n - 1
    IN  [n \in 1..Cardinality(keep) |-> s[nth(n)]]

\* the service's answer the popup's callback of cycle c was run with
AnalysisData(c) == Head(cyc[c].sends).data

\* the texts of the job skills of cycle c, lowercased
LoweredJobSkills(c) ==
    LET items == AnalysisData(c).skills.items
    IN  [i \in 1..Len(items) |-> ToLower(items[i].text)]

Reported(c) == cyc[c].pc = "done" /\ cyc[c].shown.rendered

\* s is t with some entries left out
IsSubsequence(s, t) == \E keep \in SUBSET (1..Len(t)) : s = Kept(t, keep)

\* C12: after lowercasing both sides, matchingSkills is exactly the user
\* skills that are a substring of at least one job skill, in the user's
\* order, and missingSkills is exactly the job skills that contain no user
\* skill as a substring, in the job's order.
C12_MatchAndMissing ==
    \A c \in Cycles : Reported(c) =>
        LET job == LoweredJobSkills(c)
            user == [i \in 1..Len(userSkills) |-> ToLower(userSkills[i])]
        IN  /\ cyc[c].shown.matchingSkills =
                  Kept(userSkills, {i \in 1..Len(user) :
                                      \E j \in 1..Len(job) : Includes(job[j], user[i])})
            /\ cyc[c].shown.missingSkills =
                  Kept(job, {j \in 1..Len(job) :
                                \A i \in 1..Len(user) : ~Includes(job[j], user[i])})

\* user skills p, sq against job skills Px, SQ, x: both user skills match and
\* x alone is missing
C12_Witness ==
    /\ Reported(1)
    /\ userSkills = << <<"p">>, <<"s", "q">> >>
    /\ ItemTexts(AnalysisData(1).skills.items) = << <<"P", "x">>, <<"S", "Q">>, <<"x">> >>
    /\ cyc[1].shown.matchingSkills = << <<"p">>, <<"s", "q">> >>
    /\ cyc[1].shown.missingSkills = << <<"x">> >>

\* an empty user list: nothing matches and every job skill is missing
C12_WitnessNoSkills ==
    /\ Reported(1)
    /\ userSkills = <<>>
    /\ Len(AnalysisData(1).skills.items) = 2
    /\ cyc[1].shown.matchingSkills = <<>>
    /\ cyc[1].shown.missingSkills = LoweredJobSkills(1)

\* C13: the percentage shown with a report is the value the service returned,
\* 0 when the service returned none; it is the same as the one shown for an
\* empty or a one-skill list in place of the user's, so it is not worked out
\* from the local lists.
C13_PercentFromService ==
    \A c \in Cycles : Reported(c) =>
        LET d == AnalysisData(c)
        IN  /\ cyc[c].shown.matchPercent =
                  IF d.matchPercentage.present THEN d.matchPercentage.value ELSE 0
            /\ \A u \in SeqsUpTo(UserSkillTexts, 1) :
                  popupCallback(NoMsg, Head(cyc[c].sends), u).matchPercent =
                      cyc[c].shown.matchPercent

\* the service returned no percentage and every job skill matched: 0 is shown
C13_Witness ==
    /\ Reported(1)
    /\ ~AnalysisData(1).matchPercentage.present
    /\ cyc[1].shown.matchingSkills # <<>>
    /\ LoweredJobSkills(1) # <<>>
    /\ cyc[1].shown.missingSkills = <<>>
    /\ cyc[1].shown.matchPercent = 0

\* the service returned 50 and no job skill matched: 50 is shown
C13_WitnessValue ==
    /\ Reported(1)
    /\ AnalysisData(1).matchPercentage = Num(50)
    /\ userSkills # <<>>
    /\ cyc[1].shown.matchingSkills = <<>>
    /\ cyc[1].shown.matchPercent = 50

(***************************************************************************)
(* C15, C16  concurrent cycles, no retry                                   *)
(***************************************************************************)
\* C15: cycles triggered concurrently are independent: a step of one cycle
\* leaves the other cycles as they are, a cycle in flight always has a step
\* it can take whatever the others do, each cycle that reaches the service
\* issues a request of its own from its own job details, and what is relayed
\* and delivered in a cycle is the answer to that cycle's own request.
C15_CyclesIndependent ==
    /\ [](\A c \in Cycles :
            /\ cyc[c].pc \notin {"idle", "done"} => ENABLED Step(c)
            /\ InLog(c, "fetch") =>
                 /\ Times(c, "fetch") = 1
                 /\ cyc[c].request.isSet
                 /\ cyc[c].request.description = cyc[c].jobDetails.description
            /\ InLog(c, "settled") =>
                 /\ cyc[c].bgSends = bgPromiseChain(cyc[c].outcome)
                 /\ cyc[c].reply.response = Head(cyc[c].bgSends)
            /\ InLog(c, "settled") /\ InLog(c, "relay") =>
                 cyc[c].sends = contentCallback(NoMsg, Head(bgPromiseChain(cyc[c].outcome)))
            /\ InLog(c, "relay") /\ cyc[c].pc = "done" =>
                 /\ cyc[c].deliveries = 1
                 /\ cyc[c].shown = popupCallback(NoMsg, Head(cyc[c].sends), userSkills))
    /\ [][\A c \in Cycles :
            Click(c) \/ Step(c) => \A d \in Cycles \ {c} : cyc'[d] = cyc[d]]_vars

\* the second cycle was triggered while the first was in flight and has been
\* answered, with a report, while the first still waits for the service
C15_Witness ==
    /\ cyc[1].pc = "fetching"
    /\ cyc[2].pc = "done"
    /\ cyc[2].outcome = Http(200, Json(ValidResult))
    /\ cyc[2].shown.rendered

\* both cycles answered, each with the outcome of its own request
C15_WitnessBoth ==
    /\ cyc[1].pc = "done" /\ cyc[2].pc = "done"
    /\ cyc[1].outcome = NetworkError
    /\ cyc[2].outcome = Http(200, Json(ValidResult))
    /\ cyc[1].shown.error = FailedToFetch
    /\ cyc[2].shown.rendered

\* C16: failures are terminal and nothing is retried: in a cycle the
\* extraction is attempted at most once, the profile read issued at most
\* once and the service request issued at most once, and a cycle that has
\* delivered its outcome takes no further step.
C16_NoRetry ==
    \A c \in Cycles :
        /\ Times(c, "extract") <= 1
        /\ Times(c, "readIssued") <= 1
        /\ Times(c, "fetch") <= 1
        /\ cyc[c].pc = "done" => ~ENABLED (Click(c) \/ Step(c))

\* a cycle whose request failed on the network: one extraction, one read,
\* one request, the failure shown
C16_Witness ==
    \E c \in Cycles :
        /\ cyc[c].pc = "done"
        /\ cyc[c].outcome = NetworkError
        /\ cyc[c].shown.error = FailedToFetch
        /\ Times(c, "extract") = 1
        /\ Times(c, "readIssued") = 1
        /\ Times(c, "fetch") = 1

(***************************************************************************)
(* C17  the request's skills are a snapshot of the store                   *)
(***************************************************************************)
\* C17: the request built when the background's read of the store completes
\* carries the skills the store holds at that moment (none when nothing is
\* stored) and the description, company and title handed off; once built it
\* does not change, whatever is written to the store afterwards; and when
\* no set call is pending the store holds the items of the latest call.
C17_RequestIsSnapshot ==
    /\ [][\A c \in Cycles :
            BgStorageRead(c) =>
                /\ cyc'[c].request.isSet
                /\ cyc'[c].request.skills =
                      IF store.userSkills.isSet THEN store.userSkills.list ELSE <<>>
                /\ cyc'[c].request.description = cyc[c].jobDetails.description
                /\ cyc'[c].request.company = cyc[c].jobDetails.company
                /\ cyc'[c].request.title = cyc[c].jobDetails.title]_vars
    /\ [][\A c \in Cycles : cyc[c].request.isSet => cyc'[c].request = cyc[c].request]_vars
    /\ [](writes = <<>> /\ lastSet # NothingStored => store = lastSet)

\* the read completed while nothing was stored; two set calls were applied
\* after it and the request in flight still carries no skills
C17_Witness ==
    /\ cyc[1].pc = "fetching"
    /\ cyc[1].request.skills = <<>>
    /\ writes = <<>>
    /\ store = Stored(<< <<"x">>, <<"p">> >>)

\* two different set calls pending while the background waits for its read
C17_WitnessTwoPending ==
    /\ cyc[1].pc = "reading"
    /\ Len(writes) = 2
    /\ writes[1] # writes[2]

\* the read completed after a write: the request carries the written skills
C17_WitnessReadAfterWrite ==
    /\ cyc[1].pc = "fetching"
    /\ lastSet = Stored(<< <<"x">> >>)
    /\ cyc[1].request.skills = << <<"x">> >>

(***************************************************************************)
(* C18  processing a response changes no skill list                        *)
(***************************************************************************)
\* C18: the popup's processing of an analysis response leaves its skill list
\* and the stored profile (with the set calls pending on it) as they were,
\* and two cycles that processed the same response show the same
\* matchingSkills, missingSkills and percentage.
C18_ProcessingIsPure ==
    /\ [][\A c \in Cycles :
            PopupCallback(c) =>
                userSkills' = userSkills /\ store' = store /\ writes' = writes]_vars
    /\ [](\A c, d \in Cycles :
            /\ Reported(c) /\ Reported(d)
            /\ Head(cyc[c].sends) = Head(cyc[d].sends)
            => /\ cyc[c].shown.matchingSkills = cyc[d].shown.matchingSkills
               /\ cyc[c].shown.missingSkills = cyc[d].shown.missingSkills
               /\ cyc[c].shown.matchPercent = cyc[d].shown.matchPercent)

\* the same response processed in two cycles against a list of which one
\* skill matches: the list is as it was and both reports are the same
C18_Witness ==
    /\ Reported(1) /\ Reported(2)
    /\ Head(cyc[1].sends) = Head(cyc[2].sends)
    /\ userSkills = << <<"p">>, <<"s", "q">> >>
    /\ store = Stored(userSkills)
    /\ cyc[1].shown.matchingSkills = << <<"p">> >>
    /\ cyc[2].shown.matchingSkills = << <<"p">> >>
    /\ cyc[2].shown.missingSkills # <<>>

(***************************************************************************)
(* C14  the skill list under add and remove                                *)
(***************************************************************************)
\* no two entries of the list are equal up to case
NoDuplicates(list) ==
    \A i, j \in 1..Len(list) : ToLower(list[i]) = ToLower(list[j]) => i = j

\* the positions at which a comma-separated entry of text starts
EntryStarts(text) == {1} \cup {i + 1 : i \in {k \in 1..Len(text) : text[k] = ","}}

\* the entry starting at position i: up to the next comma, lowercased, trimmed
EntryAt(text, i) ==
    LET ends == {j \in i..Len(text) : text[j] = ","} \cup {Len(text) + 1}
        e == CHOOSE j \in ends : \A k \in ends : j <= k
    IN  Trim(ToLower(SubSeq(text, i, e - 1)))

\* where the entry a first occurs in text
FirstStart(text, a) ==
    LET at == {i \in EntryStarts(text) : EntryAt(text, i) = a}
    IN  CHOOSE i \in at : \A k \in at : i <= k

\* after is before with the new entries of text appended: the old entries
\* stay in place; an appended entry is a non-empty lowercased trimmed entry of
\* text that before did not hold; none is appended twice; every non-empty
\* entry of text is in after; the appended entries are in the order of their
\* first occurrence in text
Appended(before, after, text) ==
    LET entries == {EntryAt(text, i) : i \in EntryStarts(text)} \ {<<>>}
        added == (Len(before) + 1)..Len(after)
    IN  /\ Len(after) >= Len(before)
        /\ SubSeq(after, 1, Len(before)) = before
        /\ \A k \in added :
              /\ after[k] \in entries
              /\ ~\E i \in 1..Len(before) : before[i] = after[k]
              /\ \A l \in added : after[l] = after[k] => l = k
        /\ \A a \in entries : \E k \in 1..Len(after) : after[k] = a
        /\ \A k, l \in added :
              k < l => FirstStart(text, after[k]) < FirstStart(text, after[l])

\* C14: addSkills lowercases and trims each comma-separated entry, drops the
\* empty ones, appends only entries the list does not hold yet, in the order
\* of first occurrence, and hands the resulting list to the store; and from
\* a duplicate-free lowercase list no sequence of add and remove operations
\* leaves two entries equal up to case.
C14_AddKeepsListUnique ==
    /\ [](NoDuplicates(userSkills) /\ \A i \in 1..Len(userSkills) : userSkills[i] # <<>>)
    /\ [][\A text \in InputTexts :
            AddSkills(text) =>
                /\ Appended(userSkills, userSkills', text)
                /\ Trim(text) # <<>> =>
                      /\ writes' = Append(writes, Stored(userSkills'))
                      /\ lastSet' = Stored(userSkills')]_vars

\* "P, SQ, p" was added to an empty profile: the list is p, sq and the one
\* pending set call carries it
C14_Witness ==
    /\ userSkills = << <<"p">>, <<"s", "q">> >>
    /\ store = NothingStored
    /\ writes = <<Stored(userSkills)>>
    /\ lastSet = Stored(userSkills)

\* a skill was removed and another added after it
C14_WitnessAddAfterRemove ==
    /\ userSkills = << <<"s", "q">>, <<"x">> >>
    /\ store = Stored(userSkills)

(***************************************************************************)
(* C19  the stored list and the popup's list                               *)
(***************************************************************************)
\* the list a read of the store yields
StoredSkills == IF store.userSkills.isSet THEN store.userSkills.list ELSE <<>>

\* C19 as stated: whenever no profile operation is under way (no set call is
\* pending) the list in the store equals the popup's list
C19_StoreEqualsList == writes = <<>> => StoredSkills = userSkills

\* the part of C19 that holds: an add with text and a save of the profile
\* hand the popup's list to the store
C19_AddAndSaveAreStored ==
    [][/\ SaveProfile => lastSet' = Stored(userSkills')
       /\ \A text \in InputTexts :
             AddSkills(text) /\ Trim(text) # <<>> => lastSet' = Stored(userSkills')]_vars

(***************************************************************************)
(* C20  the report covers the job skills                                   *)
(***************************************************************************)
InSeq(x, seq) == \E i \in 1..Len(seq) : seq[i] = x

\* C20: every lowercased job skill is either in missingSkills or contains a
\* member of matchingSkills as a substring, never both; matchingSkills is a
\* subsequence of the user's skills and missingSkills a subsequence of the
\* lowercased job skills; missingSkills is all the job skills exactly when
\* matchingSkills is empty.
C20_ReportCoversJobSkills ==
    \A c \in Cycles : Reported(c) =>
        LET job == LoweredJobSkills(c)
            matching == cyc[c].shown.matchingSkills
            missing == cyc[c].shown.missingSkills
        IN  /\ \A j \in 1..Len(job) :
                  InSeq(job[j], missing) #
                      (\E m \in 1..Len(matching) : Includes(job[j], matching[m]))
            /\ IsSubsequence(matching, userSkills)
            /\ IsSubsequence(missing, job)
            /\ (missing = job) <=> (matching = <<>>)

\* one job skill contains the user's skill and the other does not
C20_Witness ==
    /\ Reported(1)
    /\ userSkills = << <<"p">>, <<"s", "q">> >>
    /\ LoweredJobSkills(1) = << <<"p", "x">>, <<"x">> >>
    /\ cyc[1].shown.matchingSkills = << <<"p">> >>
    /\ cyc[1].shown.missingSkills = << <<"x">> >>

====
